---- MODULE Spec2Model ----
(***************************************************************************)
(* Model of src/longform.py: the script that turns one wide survival       *)
(* record per patient into a long person-period panel.                     *)
(*                                                                         *)
(* Dates are whole days counted from 2018-01-01 (day 0).  A nullable       *)
(* column (a date that may be NaT, a number that may be NaN) holds either  *)
(* the empty tuple NaT or a one-element tuple <<v>>.  A data frame is the   *)
(* sequence of its rows, in the frame's row order.                         *)
(***************************************************************************)
EXTENDS Integers, Sequences, FiniteSets, TLC

VARIABLES
    pc,        \* the statement of the script that runs next
    max_days,  \* the configured MAX_DAYS the startup check reads
    infile,    \* the rows of the input CSV
    df,        \* the data frame `df` of the script
    outfile    \* the rows written to the output CSV (<<>> until written)

vars == <<pc, max_days, infile, df, outfile>>

----------------------------------------------------------------------------
(* Configuration of the script *)

NUM_DAYS == 30
MAX_DATE == 1004
MAX_DAYS == 360 * 6
num_days_censor == 30

----------------------------------------------------------------------------
(* Nullable values and frame helpers (pandas semantics) *)

NaT == <<>>
IsNull(x) == x = NaT
Some(v) == <<v>>
Val(x) == x[1]

Min2(a, b) == IF a <= b THEN a ELSE b

\* DataFrame.min(axis=1) over a nullable date and a date: NaT is skipped.
MinSkipNa(x, d) == IF IsNull(x) THEN d ELSE Min2(Val(x), d)

SetMin(S) == CHOOSE m \in S : \A x \in S : m <= x

\* DataFrame.drop_duplicates(): the first occurrence of each whole row stays.
DropDuplicates(s) ==
    LET tagged == [i \in 1..Len(s) |-> <<i, s[i]>>]
        first(p) == \A j \in 1..(p[1] - 1) : s[j] # p[2]
        kept == SelectSeq(tagged, first)
    IN [k \in 1..Len(kept) |-> kept[k][2]]

\* pd.concat(frames, ignore_index=True)
Concat(frames) ==
    LET F[i \in 0..Len(frames)] ==
            IF i = 0 THEN <<>> ELSE F[i - 1] \o frames[i]
    IN F[Len(frames)]

\* pd.date_range(start, end, freq): start, start+freq, ... while <= end.
date_range(start, end, freq) ==
    IF end < start THEN <<>>
    ELSE [k \in 1..((end - start) \div freq + 1) |-> start + (k - 1) * freq]

----------------------------------------------------------------------------
(* The statements of the script, row by row *)

\* df[[idvar, t0, eventdate, maxvisit]]
Project(r) ==
    [id |-> r.id, t0 |-> r.t0, eventdate |-> r.eventdate, maxvisit |-> r.maxvisit]

\* Variant: the administrative cutoff is forgotten.
end_date_uncapped(r) == r.t0 + 360 * 6

\* end_date = min(MAX_DATE, t0 + 360*6 days)
end_date(r) == Min2(MAX_DATE, r.t0 + 360 * 6)

\* Variant: the test for a missing event date is forgotten.
censor_any(r) == r.maxvisit < r.end_date - num_days_censor

\* censor = maxvisit < end_date - num_days_censor  and  eventdate is null
censor(r) == (r.maxvisit < r.end_date - num_days_censor) /\ IsNull(r.eventdate)

\* end_date = min(eventdate, end_date), NaT skipped
tightened(r) == MinSkipNa(r.eventdate, r.end_date)

\* Variants: no extra period, and one extra period too many.
range_end_short(r) == r.end_date
range_end_far(r) == r.end_date + 2 * NUM_DAYS

\* The last date handed to pd.date_range for a patient.
range_end(r) == r.end_date + NUM_DAYS

\* The frame built for one patient in the list comprehension.
PeriodFrame(r) ==
    LET ts == date_range(r.t0, range_end(r), NUM_DAYS)
    IN [k \in 1..Len(ts) |->
           [id |-> r.id, t |-> ts[k], t0 |-> r.t0, end_date |-> r.end_date,
            maxvisit |-> r.maxvisit, censor |-> r.censor,
            eventdate |-> r.eventdate]]

\* groupby(idvar).cumcount(): rows of the same id that come earlier.
cumcount(s, i) == Cardinality({j \in 1..(i - 1) : s[j].id = s[i].id})

\* Variant: strict comparison with the event date.
has_event_strict(r) == ~IsNull(r.eventdate) /\ r.t > Val(r.eventdate)

\* ~isnaevent & (t >= eventdate)
has_event(r) == ~IsNull(r.eventdate) /\ r.t >= Val(r.eventdate)

\* isnaevent & censored & (t > maxvisit + num_days_censor)
is_censored(r) ==
    IsNull(r.eventdate) /\ r.censor /\ r.t > r.maxvisit + num_days_censor

EVENT(r) == IF is_censored(r) THEN NaT
            ELSE IF has_event(r) THEN Some(1) ELSE Some(0)

CENS(r) == IF is_censored(r) THEN 1 ELSE 0

\* censor_date = maxvisit + num_days_censor, NaT where not censored
censor_date(r) == IF r.censor THEN Some(r.maxvisit + num_days_censor) ELSE NaT

\* (t - censor_date).dt.days, NaN where censor_date is NaT
delta(r) == IF IsNull(r.censor_date) THEN NaT ELSE Some(r.t - Val(r.censor_date))

\* groupby(idvar).transform(lambda i: i[i >= 0].min())
group_min(s, id) ==
    LET D == {Val(delta(s[j])) : j \in {k \in 1..Len(s) :
                  s[k].id = id /\ ~IsNull(delta(s[k])) /\ Val(delta(s[k])) >= 0}}
    IN IF D = {} THEN NaT ELSE Some(SetMin(D))

\* censor_t = censor_date + to_timedelta(group minimum)
censor_t(s, r) ==
    IF IsNull(r.censor_date) \/ IsNull(group_min(s, r.id)) THEN NaT
    ELSE Some(Val(r.censor_date) + Val(group_min(s, r.id)))

\* Variant: rows are kept one period past censor_t.
keep_row_late(r) == IsNull(r.censor_t) \/ r.t <= Val(r.censor_t) + NUM_DAYS

\* censor_t.isnull() | (t <= censor_t)
keep_row(r) == IsNull(r.censor_t) \/ r.t <= Val(r.censor_t)

----------------------------------------------------------------------------
(* Inputs *)

Periods == 2

Offsets == {k * NUM_DAYS + j : k \in 0..Periods, j \in {-1, 0, 1}}
EventOffsets == Offsets \cup {-40, 73}
VisitOffsets == Offsets \cup {-100, -40, 68}
Origins == {-1160, 0, 934, 1014, 1040}

Record(i, o, e, m) == [id |-> i, t0 |-> o, eventdate |-> e, maxvisit |-> m]

PatientRecords(i) ==
    {Record(i, o, IF IsNull(e) THEN NaT ELSE Some(o + Val(e)), o + m) :
        o \in Origins,
        e \in {NaT} \cup {Some(x) : x \in EventOffsets},
        m \in VisitOffsets}

CompanionRecords(i) ==
    {Record(i, 934, e, 934 + m) : e \in {NaT, Some(964)}, m \in {0, 31}}

\* Tables in which all rows of one identifier are identical.
Tables ==
    {<<r>> : r \in PatientRecords(1)}
    \cup {<<r, r>> : r \in CompanionRecords(1)}
    \cup {<<r1, r2>> : r1 \in PatientRecords(1), r2 \in CompanionRecords(2)}

\* Tables in which one identifier has rows that differ.
DupTables ==
    {<<r1, r2>> : r1 \in PatientRecords(1), r2 \in CompanionRecords(1)}

ConfiguredMaxDays == {MAX_DAYS, MAX_DAYS + 15}

----------------------------------------------------------------------------
(* The script *)

InitWith(T) ==
    /\ pc = "config"
    /\ max_days \in ConfiguredMaxDays
    /\ infile \in T
    /\ df = <<>>
    /\ outfile = <<>>

Init == InitWith(Tables)
InitDup == InitWith(DupTables)

\* Variant: the startup check is left out.
config_unchecked == TRUE

\* The test of the startup check.
config_ok == max_days % NUM_DAYS = 0

\* if MAX_DAYS % NUM_DAYS != 0: raise(...)
ConfigCheck ==
    /\ pc = "config"
    /\ pc' = IF config_ok THEN "read" ELSE "error"
    /\ UNCHANGED <<max_days, infile, df, outfile>>

\* df = pd.read_csv(infilename); column selection; drop_duplicates
ReadInput ==
    /\ pc = "read"
    /\ df' = DropDuplicates([i \in 1..Len(infile) |-> Project(infile[i])])
    /\ pc' = "end_date"
    /\ UNCHANGED <<max_days, infile, outfile>>

ComputeEndDate ==
    /\ pc = "end_date"
    /\ df' = [i \in 1..Len(df) |-> df[i] @@ [end_date |-> end_date(df[i])]]
    /\ pc' = "censor"
    /\ UNCHANGED <<max_days, infile, outfile>>

ComputeCensor ==
    /\ pc = "censor"
    /\ df' = [i \in 1..Len(df) |-> df[i] @@ [censor |-> censor(df[i])]]
    /\ pc' = "tighten"
    /\ UNCHANGED <<max_days, infile, outfile>>

TightenEndDate ==
    /\ pc = "tighten"
    /\ df' = [i \in 1..Len(df) |-> [df[i] EXCEPT !.end_date = tightened(df[i])]]
    /\ pc' = "expand"
    /\ UNCHANGED <<max_days, infile, outfile>>

\* pd.concat([...per patient...]); drop_duplicates
Expand ==
    /\ pc = "expand"
    /\ df' = DropDuplicates(Concat([i \in 1..Len(df) |-> PeriodFrame(df[i])]))
    /\ pc' = "month"
    /\ UNCHANGED <<max_days, infile, outfile>>

AssignMonth ==
    /\ pc = "month"
    /\ df' = [i \in 1..Len(df) |-> df[i] @@ [month |-> cumcount(df, i)]]
    /\ pc' = "flags"
    /\ UNCHANGED <<max_days, infile, outfile>>

AssignFlags ==
    /\ pc = "flags"
    /\ df' = [i \in 1..Len(df) |-> df[i] @@ [EVENT |-> EVENT(df[i]), CENS |-> CENS(df[i])]]
    /\ pc' = "censor_date"
    /\ UNCHANGED <<max_days, infile, outfile>>

AssignCensorDate ==
    /\ pc = "censor_date"
    /\ df' = [i \in 1..Len(df) |-> df[i] @@ [censor_date |-> censor_date(df[i])]]
    /\ pc' = "truncate"
    /\ UNCHANGED <<max_days, infile, outfile>>

Truncate ==
    /\ pc = "truncate"
    /\ df' = SelectSeq([i \in 1..Len(df) |-> df[i] @@ [censor_t |-> censor_t(df, df[i])]],
                       keep_row)
    /\ pc' = "write"
    /\ UNCHANGED <<max_days, infile, outfile>>

\* df.to_csv(outfilename, index=False)
WriteOutput ==
    /\ pc = "write"
    /\ outfile' = df
    /\ pc' = "done"
    /\ UNCHANGED <<max_days, infile, df>>

Next ==
    \/ ConfigCheck
    \/ ReadInput
    \/ ComputeEndDate
    \/ ComputeCensor
    \/ TightenEndDate
    \/ Expand
    \/ AssignMonth
    \/ AssignFlags
    \/ AssignCensorDate
    \/ Truncate
    \/ WriteOutput

Spec == Init /\ [][Next]_vars
SpecDup == InitDup /\ [][Next]_vars


----------------------------------------------------------------------------
(* Vocabulary of the properties *)

Done == pc = "done"

RowsOf(s, i) == SelectSeq(s, LAMBDA r : r.id = i)

Ids == {infile[k].id : k \in 1..Len(infile)}

\* The input record of a patient (under Spec all rows of an id are identical).
InputOf(i) == infile[CHOOSE k \in 1..Len(infile) : infile[k].id = i]

\* The patient's end of follow-up and candidate flag, as the script derives them.
WithEnd(rec) == rec @@ [end_date |-> end_date(rec)]
WindowEnd(rec) == tightened(WithEnd(rec))
Candidate(rec) == censor(WithEnd(rec))

\* Stages at which every row of df carries t0 and the tightened end_date.
AfterTighten ==
    {"expand", "month", "flags", "censor_date", "truncate", "write", "done"}

Abs(x) == IF x < 0 THEN -x ELSE x

----------------------------------------------------------------------------
\* C1: in the final panel a row with CENS = 1 is the only such row of its
\* patient and has the largest period start of that patient.
C1_CensoredRowIsLast ==
    Done =>
        \A i, j \in 1..Len(outfile) :
            (outfile[i].CENS = 1 /\ j # i /\ outfile[j].id = outfile[i].id)
                => (outfile[j].CENS = 0 /\ outfile[j].t < outfile[i].t)

C1_Witness ==
    Done /\ \E i, j \in 1..Len(outfile) :
                outfile[i].CENS = 1 /\ j # i /\ outfile[j].id = outfile[i].id

\* C2: a patient with an event date has no CENS = 1 row, a null censor_date
\* and a null censor_t, and truncation drops none of the patient's rows.
C2_EventRowsState ==
    pc \in {"write", "done"} =>
        \A k \in 1..Len(df) :
            ~IsNull(df[k].eventdate) =>
                (df[k].CENS = 0 /\ IsNull(df[k].censor_date) /\ IsNull(df[k].censor_t))

C2_TruncateKeeps ==
    pc = "truncate" =>
        \A i \in Ids :
            ~IsNull(InputOf(i).eventdate) => Len(RowsOf(df', i)) = Len(RowsOf(df, i))

\* C2: both parts, the state of the rows and the effect of the truncation step.
C2_EventNeverCensored == [](C2_EventRowsState) /\ [][C2_TruncateKeeps]_vars

C2_Witness ==
    Done /\ \E k \in 1..Len(outfile) :
                /\ ~IsNull(outfile[k].eventdate)
                /\ outfile[k].maxvisit < outfile[k].end_date - num_days_censor
                /\ outfile[k].t > outfile[k].maxvisit + num_days_censor

\* C3 as claimed: every record, whatever its dates, ends with
\* origin <= end_date <= cutoff.
C3_Original ==
    pc \in AfterTighten =>
        \A k \in 1..Len(df) : df[k].t0 <= df[k].end_date /\ df[k].end_date <= MAX_DATE

\* C3 amended: end_date <= cutoff for every record; origin <= end_date for the
\* records whose origin is not after the cutoff and whose event date is null
\* or not before the origin.
C3_Amended ==
    pc \in AfterTighten =>
        \A k \in 1..Len(df) :
            /\ df[k].end_date <= MAX_DATE
            /\ (/\ df[k].t0 <= MAX_DATE
                /\ (IsNull(df[k].eventdate) \/ df[k].t0 <= Val(df[k].eventdate)))
               => df[k].t0 <= df[k].end_date

C3_Witness ==
    pc = "expand" /\ \E k \in 1..Len(df) :
        /\ ~IsNull(df[k].eventdate)
        /\ df[k].t0 < Val(df[k].eventdate)
        /\ df[k].end_date = Val(df[k].eventdate)
        /\ df[k].end_date < MAX_DATE

\* The number of rows the formula of C4 predicts for a patient.
PredictedRows(rec, rows) ==
    LET e == WindowEnd(rec)
        ct == IF Len(rows) = 0 THEN NaT ELSE rows[1].censor_t
    IN (MinSkipNa(ct, e) - rec.t0) \div NUM_DAYS + 1

RowCountOK(i) ==
    LET rows == RowsOf(outfile, i)
    IN /\ Len(rows) >= 1
       /\ Abs(Len(rows) - PredictedRows(InputOf(i), rows)) <= 1

\* C4 as claimed: every patient of the input keeps at least one row, and the
\* number of rows is within one of the predicted number.
C4_Original == Done => \A i \in Ids : RowCountOK(i)

\* C4 amended: the same for every patient whose origin is not more than one
\* period after the end of follow-up.
C4_Amended ==
    Done =>
        \A i \in Ids :
            InputOf(i).t0 <= WindowEnd(InputOf(i)) + NUM_DAYS => RowCountOK(i)

C4_Witness ==
    Done /\ \E i \in Ids :
        LET rows == RowsOf(outfile, i)
        IN /\ Len(rows) >= 2
           /\ ~IsNull(rows[1].censor_t)
           /\ Val(rows[1].censor_t) > rows[1].end_date
           /\ Len(rows) = PredictedRows(InputOf(i), rows) + 1

\* C5 as claimed (for patients whose origin is not after the cutoff): a
\* censoring candidate has CENS = 0 and EVENT = 0 on every row up to the
\* threshold last visit + grace, then one terminal row past the threshold
\* with CENS = 1 and EVENT null.
C5_Claim ==
    Done =>
        \A i \in Ids :
            (Candidate(InputOf(i)) /\ InputOf(i).t0 <= MAX_DATE) =>
                LET rows == RowsOf(outfile, i)
                    thr == InputOf(i).maxvisit + num_days_censor
                    n == Len(rows)
                IN /\ n >= 1
                   /\ rows[n].t > thr /\ rows[n].CENS = 1 /\ IsNull(rows[n].EVENT)
                   /\ \A k \in 1..(n - 1) :
                          rows[k].t <= thr /\ rows[k].CENS = 0 /\ rows[k].EVENT = Some(0)

\* The month, EVENT and CENS columns of a patient's rows.
Shape(rows) ==
    [k \in 1..Len(rows) |-> <<rows[k].month, rows[k].EVENT, rows[k].CENS>>]

PatientA == Record(1, 0, Some(73), 68)
HasPatientA == \E k \in 1..Len(infile) : infile[k] = PatientA

\* C6 as claimed: Patient A yields period_index 0 and 1 only, EVENT 0 then 1.
C6_Original ==
    (Done /\ HasPatientA) =>
        Shape(RowsOf(outfile, 1)) = << <<0, Some(0), 0>>, <<1, Some(1), 0>> >>

\* C6 amended: Patient A yields period_index 0, 1, 2 and 3, EVENT = 0 at
\* 0, 1 and 2, EVENT = 1 at 3, and CENS = 0 on every row.
C6_Amended ==
    (Done /\ HasPatientA) =>
        Shape(RowsOf(outfile, 1)) =
            << <<0, Some(0), 0>>, <<1, Some(0), 0>>, <<2, Some(0), 0>>, <<3, Some(1), 0>> >>

C6_Witness == Done /\ HasPatientA /\ Len(RowsOf(outfile, 1)) = 4

\* C7 as claimed: one row per (id, period_index), indices 0..n-1 without a
\* gap, and period_start = origin + period_index * period length on every row.
C7_Claim ==
    Done =>
        /\ \A i, j \in 1..Len(outfile) :
               (i # j /\ outfile[i].id = outfile[j].id)
                   => outfile[i].month # outfile[j].month
        /\ \A i \in Ids :
               LET rows == RowsOf(outfile, i)
               IN {rows[k].month : k \in 1..Len(rows)} = 0..(Len(rows) - 1)
        /\ \A k \in 1..Len(outfile) :
               outfile[k].t = outfile[k].t0 + outfile[k].month * NUM_DAYS

\* C8: a max follow-up that is no multiple of the period length leads from
\* startup straight to the error, with nothing read and nothing written; a
\* multiple never leads to the error.
C8_State ==
    /\ (max_days % NUM_DAYS # 0) =>
            (pc \in {"config", "error"} /\ df = <<>> /\ outfile = <<>>)
    /\ (max_days % NUM_DAYS = 0) => pc # "error"

C8_Step == (pc = "config" /\ max_days % NUM_DAYS # 0) => pc' = "error"

\* C8: both parts, the states the script can be in and the step of the check.
C8_ConfigError == [](C8_State) /\ [][C8_Step]_vars

C8_Witness == pc = "error" /\ df = <<>> /\ outfile = <<>>

InWindowEvent(rec) ==
    /\ ~IsNull(rec.eventdate)
    /\ rec.t0 <= Val(rec.eventdate)
    /\ Val(rec.eventdate) <= Min2(MAX_DATE, rec.t0 + MAX_DAYS)

====
